---- MODULE Spec2Model ----
(***************************************************************************)
(* Model of the Shamir reconstruction engine of src/src/lib/shamir.ts.     *)
(*                                                                         *)
(* The file holds two variants of the engine:                              *)
(*   - the keyed-object variant (lines 1-180), prime fixed to 257;         *)
(*   - the flat-array variant  (lines 183-305), prime read from the data.  *)
(* egcd and modInverse are the same code in both (38-52 and 194-208).      *)
(*                                                                         *)
(* BigInt arithmetic is unbounded; `%` and `/` truncate toward zero.       *)
(* A thrown Error is modelled as a result record with ok = FALSE.          *)
(*                                                                         *)
(* The upload component of src/src/components/shamir-reconstructor.tsx     *)
(* (lines 17-71) that calls the keyed-object variant is modelled too.      *)
(***************************************************************************)
EXTENDS Integers, Sequences, FiniteSets, TLC

VARIABLES
    pc,             \* position of the modelled call
    allShares,      \* shamir.ts:128  shares in key iteration order
    k,              \* shamir.ts:125  data.keys.k
    uniqueShares,   \* shamir.ts:146
    combinations,   \* shamir.ts:152
    idx,            \* position of the `for (const combo of combinations)` loop
    tried,          \* outcome of every candidate processed so far (ghost)
    result,         \* value returned by findValidSharesAndReconstruct
    call,           \* arguments of a helper called on its own
    ret,            \* what that helper returned or threw
    component,      \* shamir-reconstructor.tsx:18-21  file, isLoading, error, result
    reading,        \* shamir-reconstructor.tsx:49  files whose file.text() is in flight
    resultOf        \* the file whose read produced component.result (ghost)

vars == <<pc, allShares, k, uniqueShares, combinations, idx, tried, result, call, ret,
          component, reading, resultOf>>

\* the state of the upload component and of its pending reads
upload == <<component, reading, resultOf>>

\* JavaScript null
Null == [null |-> TRUE]

\* useState initial values, shamir-reconstructor.tsx:18-21
UploadIdle ==
    /\ component = [file |-> Null, isLoading |-> FALSE, error |-> Null, result |-> Null]
    /\ reading = {}
    /\ resultOf = Null

-----------------------------------------------------------------------------
(* Bounds of the model *)

MaxShares == 3      \* longest input share list
MaxK == 2           \* largest threshold k
MaxA == 12          \* modInverse arguments -MaxA..MaxA
MaxM == 8           \* modInverse moduli 2..MaxM
MaxArr == 4         \* longest array handed to getCombinations
MaxSize == 3        \* largest subset size handed to getCombinations
MaxPts == 2         \* longest point list handed to an interpolator
MaxC == 2           \* interpolator coordinates -MaxC..MaxC

-----------------------------------------------------------------------------
(* Generic helpers *)

Abs(n) == IF n < 0 THEN -n ELSE n

Range(s) == {s[i] : i \in 1..Len(s)}

SeqsUpTo(S, n) == UNION {[1..m -> S] : m \in 0..n}

NoValue == [ok |-> FALSE, val |-> 0, msg |-> "pending"]

-----------------------------------------------------------------------------
(* JavaScript BigInt operators *)

\* a % b: remainder of the division truncated toward zero (sign of a)
JSRem(a, b) == IF a >= 0 THEN a % Abs(b) ELSE -((-a) % Abs(b))

\* a / b: quotient truncated toward zero
JSDiv(a, b) ==
    IF (a >= 0) = (b >= 0) THEN Abs(a) \div Abs(b) ELSE -(Abs(a) \div Abs(b))

\* a normally returned value / a thrown Error
Return(v) == [ok |-> TRUE, val |-> v, msg |-> "none"]
Throw(m) == [ok |-> FALSE, val |-> 0, msg |-> m]

-----------------------------------------------------------------------------
(* Field arithmetic: shamir.ts 38-52 (same code at 194-208) *)

\* line 43: the triple returned from the triple [g, y, x] of the recursive call
egcdReturn(r, a, b) == <<r[1], r[3] - JSDiv(b, a) * r[2], r[2]>>

RECURSIVE egcd(_, _)
egcd(a, b) ==
    IF a = 0 THEN <<b, 0, 1>>
    ELSE egcdReturn(egcd(JSRem(b, a), a), a, b)

\* mutant of inverseFrom: the test `g !== 1n` of line 48 is dropped
inverseFromUnchecked(r, m) == Return(JSRem(JSRem(r[2], m) + m, m))

\* lines 48-51, on the pair [g, x] taken from egcd's triple
inverseFrom(r, m) ==
    IF r[1] # 1 THEN Throw("NoInverse")
    ELSE Return(JSRem(JSRem(r[2], m) + m, m))

modInverse(a, m) == inverseFrom(egcd(a, m), m)

-----------------------------------------------------------------------------
(* Keyed-object variant: interpolation at zero, shamir.ts 54-79 *)

\* the inner `for j` loop (63-68): <<numerator, denominator>> after index j
RECURSIVE basisAtZero(_, _, _, _, _, _)
basisAtZero(shares, prime, i, j, numerator, denominator) ==
    IF j > Len(shares) THEN <<numerator, denominator>>
    ELSE IF i = j THEN basisAtZero(shares, prime, i, j + 1, numerator, denominator)
    ELSE basisAtZero(shares, prime, i, j + 1,
                     JSRem(numerator * (0 - shares[j].x), prime),
                     JSRem(denominator * (shares[i].x - shares[j].x), prime))

\* mutant of foldSecret: the possibly negative remainder is returned as it is
foldSecretNoFold(secret, prime) == secret

\* the value returned at line 78
foldSecret(secret, prime) == JSRem(secret + prime, prime)

\* lines 74-75: the secret after adding the i-th Lagrange term
addTerm(secret, yi, numerator, inv, prime) ==
    JSRem(secret + JSRem(yi * numerator * inv, prime), prime)

\* the outer `for i` loop (58-76) from index i on, then the return;
\* termOf is the rest of iteration i once numerator and denominator are known
RECURSIVE reconstructFrom(_, _, _, _), termOf(_, _, _, _, _), termWith(_, _, _, _, _, _)
reconstructFrom(shares, prime, i, secret) ==
    IF i > Len(shares) THEN Return(foldSecret(secret, prime))
    ELSE termOf(shares, prime, i, secret, basisAtZero(shares, prime, i, 1, 1, 1))

termOf(shares, prime, i, secret, nd) ==
    IF nd[2] = 0 THEN Throw("DivisionByZero")
    ELSE termWith(shares, prime, i, secret, nd[1], modInverse(nd[2], prime))

termWith(shares, prime, i, secret, numerator, inv) ==
    IF ~inv.ok THEN inv
    ELSE reconstructFrom(shares, prime, i + 1,
                         addTerm(secret, shares[i].y, numerator, inv.val, prime))

reconstructSecret(shares, prime) == reconstructFrom(shares, prime, 1, 0)

-----------------------------------------------------------------------------
(* Keyed-object variant: subset enumeration, shamir.ts 81-99 *)

\* mutant of combine: the bounds test of line 88 comes before the length test
\* of line 84, so a subset completed by the last element is never pushed
RECURSIVE combineBoundsFirst(_, _, _, _)
combineBoundsFirst(array, size, startIndex, combination) ==
    IF startIndex > Len(array) THEN <<>>
    ELSE IF Len(combination) = size THEN <<combination>>
    ELSE combineBoundsFirst(array, size, startIndex + 1,
                            Append(combination, array[startIndex]))
         \o combineBoundsFirst(array, size, startIndex + 1, combination)

\* combine(startIndex, combination): the subsets it pushes, in push order
RECURSIVE combine(_, _, _, _)
combine(array, size, startIndex, combination) ==
    IF Len(combination) = size THEN <<combination>>
    ELSE IF startIndex > Len(array) THEN <<>>
    ELSE combine(array, size, startIndex + 1, Append(combination, array[startIndex]))
         \o combine(array, size, startIndex + 1, combination)

\* mutant of getCombinations: the recursion starts one element too late
getCombinationsSkipsFirst(array, size) == combine(array, size, 2, <<>>)

getCombinations(array, size) == combine(array, size, 1, <<>>)

-----------------------------------------------------------------------------
(* Keyed-object variant: evaluation at x, shamir.ts 101-118 *)

\* the inner `for j` loop (108-114): the term after index j, or the throw;
\* termTimes is line 113 once modInverse has returned or thrown
RECURSIVE termAt(_, _, _, _, _, _), termTimes(_, _, _, _, _, _, _)
termAt(x, points, prime, i, j, term) ==
    IF j > Len(points) THEN Return(term)
    ELSE IF i = j THEN termAt(x, points, prime, i, j + 1, term)
    ELSE termTimes(x, points, prime, i, j, term,
                   modInverse(points[i].x - points[j].x, prime))

termTimes(x, points, prime, i, j, term, inv) ==
    IF ~inv.ok THEN inv
    ELSE termAt(x, points, prime, i, j + 1,
                JSRem(term * (x - points[j].x) * inv.val, prime))

\* mutant of foldResult: the possibly negative remainder is returned as it is
foldResultNoFold(r, prime) == r

\* the value returned at line 117
foldResult(r, prime) == JSRem(r + prime, prime)

\* the outer `for i` loop (105-116) from index i on, then the return
RECURSIVE evaluateFrom(_, _, _, _, _), evaluateAdd(_, _, _, _, _, _)
evaluateFrom(x, points, prime, i, r) ==
    IF i > Len(points) THEN Return(foldResult(r, prime))
    ELSE evaluateAdd(x, points, prime, i, r,
                     termAt(x, points, prime, i, 1, points[i].y))

evaluateAdd(x, points, prime, i, r, t) ==
    IF ~t.ok THEN t
    ELSE evaluateFrom(x, points, prime, i + 1, JSRem(r + t.val, prime))

evaluatePolynomial(x, points, prime) == evaluateFrom(x, points, prime, 1, 0)

-----------------------------------------------------------------------------
(* Keyed-object variant: findValidSharesAndReconstruct, shamir.ts 120-180 *)

Prime == 257

\* shares the input object can hold: x = BigInt(key), y = parseBigInt(value, base);
\* one abscissa and one ordinate lie beyond the prime
XVals == {1, 2, 3, Prime + 1}
YVals == {0, 1, Prime + 1}
Shares == [x : XVals, y : YVals]

hasX(list, x) == \E i \in 1..Len(list) : list[i].x = x

\* mutant of mapOfEntries: an entry whose key is already present is dropped
RECURSIVE mapOfEntriesKeepsFirst(_, _)
mapOfEntriesKeepsFirst(items, acc) ==
    IF items = <<>> THEN acc
    ELSE IF hasX(acc, Head(items).x)
    THEN mapOfEntriesKeepsFirst(Tail(items), acc)
    ELSE mapOfEntriesKeepsFirst(Tail(items), Append(acc, Head(items)))

\* new Map(entries): a repeated key keeps its first position and takes the last value
RECURSIVE mapOfEntries(_, _)
mapOfEntries(items, acc) ==
    IF items = <<>> THEN acc
    ELSE IF hasX(acc, Head(items).x)
    THEN mapOfEntries(Tail(items),
                      [i \in 1..Len(acc) |->
                          IF acc[i].x = Head(items).x THEN Head(items) ELSE acc[i]])
    ELSE mapOfEntries(Tail(items), Append(acc, Head(items)))

\* mutant of dedupe: shares with a repeated x are all kept
dedupeKeepsAll(shares) == shares

\* line 146
dedupe(shares) == mapOfEntries(shares, <<>>)

\* array.filter(s => !list.find(cs => cs.x === s.x)), lines 159 and 170
RECURSIVE filterNotIn(_, _)
filterNotIn(array, list) ==
    IF array = <<>> THEN <<>>
    ELSE IF hasX(list, Head(array).x) THEN filterNotIn(Tail(array), list)
    ELSE <<Head(array)>> \o filterNotIn(Tail(array), list)

\* mutant of pushIfEqual: the agreeing share is put in front (unshift)
pushIfEqualInFront(consistentShares, otherShare, predictedY) ==
    IF predictedY = otherShare.y THEN <<otherShare>> \o consistentShares
    ELSE consistentShares

\* lines 163-165
pushIfEqual(consistentShares, otherShare, predictedY) ==
    IF predictedY = otherShare.y THEN Append(consistentShares, otherShare)
    ELSE consistentShares

\* the `for (const otherShare of otherShares)` loop, lines 161-166:
\* the grown consistentShares, or the throw of evaluatePolynomial
RECURSIVE collectConsistent(_, _, _, _), collectWith(_, _, _, _, _)
collectConsistent(otherShares, combo, prime, consistentShares) ==
    IF otherShares = <<>> THEN Return(consistentShares)
    ELSE collectWith(otherShares, combo, prime, consistentShares,
                     evaluatePolynomial(Head(otherShares).x, combo, prime))

\* mutant of collectWith: a throw of evaluatePolynomial only skips the share
collectWithSkipsShare(otherShares, combo, prime, consistentShares, predictedY) ==
    IF ~predictedY.ok
    THEN collectConsistent(Tail(otherShares), combo, prime, consistentShares)
    ELSE collectConsistent(Tail(otherShares), combo, prime,
                           pushIfEqual(consistentShares, Head(otherShares),
                                       predictedY.val))

\* line 162 is inside the try block with no handler of its own: a throw of
\* evaluatePolynomial leaves the loop and the try block
collectWith(otherShares, combo, prime, consistentShares, predictedY) ==
    IF ~predictedY.ok THEN predictedY
    ELSE collectConsistent(Tail(otherShares), combo, prime,
                           pushIfEqual(consistentShares, Head(otherShares),
                                       predictedY.val))

\* mutant of invalidOf: the negation of the filter predicate is dropped
RECURSIVE filterIn(_, _)
filterIn(array, list) ==
    IF array = <<>> THEN <<>>
    ELSE IF hasX(list, Head(array).x)
    THEN <<Head(array)>> \o filterIn(Tail(array), list)
    ELSE filterIn(Tail(array), list)

invalidOfKeepsFound(unique, consistentShares) == filterIn(unique, consistentShares)

\* line 170
invalidOf(unique, consistentShares) == filterNotIn(unique, consistentShares)

\* mutant of accepts: a share outside the candidate has to agree with it
acceptsCorroborated(consistentShares, kk) == Len(consistentShares) > kk

\* line 168 (the same test at line 270 of the flat-array variant)
accepts(consistentShares, kk) == Len(consistentShares) >= kk

\* line 171, once the second interpolation pass has returned or thrown
classification(finalSecret, unique, consistentShares) ==
    IF ~finalSecret.ok THEN finalSecret
    ELSE Return([secret |-> finalSecret.val,
                 validShares |-> consistentShares,
                 invalidShares |-> invalidOf(unique, consistentShares)])

\* lines 168-172, once the loop over otherShares has ended or thrown
acceptOrNot(consistent, unique, kk, prime) ==
    IF ~consistent.ok THEN consistent
    ELSE IF accepts(consistent.val, kk)
    THEN classification(reconstructSecret(SubSeq(consistent.val, 1, kk), prime),
                        unique, consistent.val)
    ELSE Throw("NotAccepted")

\* lines 158-172, once the first interpolation pass has returned or thrown
crossCheck(secretCandidate, combo, unique, kk, prime) ==
    IF ~secretCandidate.ok THEN secretCandidate
    ELSE acceptOrNot(collectConsistent(filterNotIn(unique, combo), combo, prime, combo),
                     unique, kk, prime)

\* the body of the try block for one candidate, lines 156-172:
\*   ok                 val is the object returned at line 171
\*   ok = FALSE         the Error caught at line 173 (msg names it), or
\*                      msg = "NotAccepted" when the test of line 168 fails
tryCombo(combo, unique, kk, prime) ==
    crossCheck(reconstructSecret(combo, prime), combo, unique, kk, prime)

NotEnoughShares == [error |-> "Not enough shares provided"]
NotEnoughUnique == [error |-> "Not enough unique shares provided"]
NoConsistentSet == [error |-> "Could not find a consistent set of k shares"]
NoResult == [pending |-> TRUE]

\* the `for (const combo of combinations)` loop from candidate i on, lines 154-179
\* mutant of catches: only the division-by-zero Error of line 71 is caught
catchesDivisionOnly(msg) == msg = "DivisionByZero"

\* line 173: `catch(e)` takes every Error thrown in the try block and the
\* handler (174-176) is empty: nothing is rethrown
catches(msg) == TRUE

Uncaught(msg) == [thrown |-> msg]

RECURSIVE searchFrom(_, _, _, _, _), searchOn(_, _, _, _, _, _)
searchFrom(combos, unique, kk, prime, i) ==
    IF i > Len(combos) THEN NoConsistentSet
    ELSE searchOn(combos, unique, kk, prime, i, tryCombo(combos[i], unique, kk, prime))

searchOn(combos, unique, kk, prime, i, r) ==
    IF r.ok THEN r.val
    ELSE IF r.msg = "NotAccepted" \/ catches(r.msg)
    THEN searchFrom(combos, unique, kk, prime, i + 1)
    ELSE Uncaught(r.msg)

\* lines 148-179, on the de-duplicated list
searchUnique(unique, kk) ==
    IF Len(unique) < kk THEN NotEnoughUnique
    ELSE searchFrom(getCombinations(unique, kk), unique, kk, Prime, 1)

\* the whole call, lines 142-179, on the parsed share list
findValidSharesAndReconstruct(shares, kk) ==
    IF Len(shares) < kk THEN NotEnoughShares
    ELSE searchUnique(dedupe(shares), kk)

-----------------------------------------------------------------------------
(* The call as a state machine: one step per candidate of the loop *)

Init ==
    /\ pc = "start"
    /\ allShares \in SeqsUpTo(Shares, MaxShares)
    /\ k \in 1..MaxK
    /\ uniqueShares = <<>>
    /\ combinations = <<>>
    /\ idx = 0
    /\ tried = <<>>
    /\ result = NoResult
    /\ call = <<>>
    /\ ret = NoValue
    /\ UploadIdle

\* lines 142-152: the count checks, the de-duplication and the enumeration
Start ==
    /\ pc = "start"
    /\ IF Len(allShares) < k
       THEN /\ result' = NotEnoughShares
            /\ pc' = "done"
            /\ UNCHANGED <<uniqueShares, combinations, idx>>
       ELSE /\ uniqueShares' = dedupe(allShares)
            /\ IF Len(uniqueShares') < k
               THEN /\ result' = NotEnoughUnique
                    /\ pc' = "done"
                    /\ UNCHANGED <<combinations, idx>>
               ELSE /\ combinations' = getCombinations(uniqueShares', k)
                    /\ idx' = 1
                    /\ pc' = "loop"
                    /\ UNCHANGED result
    /\ UNCHANGED <<allShares, k, tried, call, ret, upload>>

\* lines 155-171: the candidate passes and its classification is returned
AcceptCandidate ==
    /\ pc = "loop"
    /\ idx <= Len(combinations)
    /\ \E r \in {tryCombo(combinations[idx], uniqueShares, k, Prime)} :
          /\ r.ok
          /\ result' = r.val
          /\ tried' = Append(tried, r.msg)
    /\ pc' = "done"
    /\ UNCHANGED <<allShares, k, uniqueShares, combinations, idx, call, ret, upload>>

\* lines 173-176: the candidate threw (or failed line 168); on to the next one
RejectCandidate ==
    /\ pc = "loop"
    /\ idx <= Len(combinations)
    /\ \E r \in {tryCombo(combinations[idx], uniqueShares, k, Prime)} :
          /\ ~r.ok
          /\ tried' = Append(tried, r.msg)
          /\ IF r.msg = "NotAccepted" \/ catches(r.msg)
             THEN /\ idx' = idx + 1
                  /\ UNCHANGED <<pc, result>>
             ELSE /\ result' = Uncaught(r.msg)
                  /\ pc' = "done"
                  /\ UNCHANGED idx
    /\ UNCHANGED <<allShares, k, uniqueShares, combinations, call, ret, upload>>

\* line 179: every candidate was rejected
Exhausted ==
    /\ pc = "loop"
    /\ idx > Len(combinations)
    /\ result' = NoConsistentSet
    /\ pc' = "done"
    /\ UNCHANGED <<allShares, k, uniqueShares, combinations, idx, tried, call, ret, upload>>

Next == Start \/ AcceptCandidate \/ RejectCandidate \/ Exhausted

Spec == Init /\ [][Next]_vars

IsSuccess(r) == "secret" \in DOMAIN r
IsError(r) == "error" \in DOMAIN r

-----------------------------------------------------------------------------
(* Flat-array variant: shamir.ts 183-305 (x is a number, y a decimal string; *)
(* both are converted with BigInt, modelled by the integer they denote)      *)

\* lines 228-229: the secret after adding the i-th Lagrange term
addTermFlat(secret, yi, numerator, invDenominator, prime) ==
    JSRem(secret + yi * numerator * invDenominator, prime)

\* the outer `for i` loop (213-230) from index i on, then the return (232);
\* numerator and denominator (219-225) are computed as at lines 63-68
RECURSIVE lagrangeFrom(_, _, _, _), lagrangeWith(_, _, _, _, _, _)
lagrangeFrom(shares, prime, i, secret) ==
    IF i > Len(shares) THEN Return(JSRem(secret + prime, prime))
    ELSE lagrangeWith(shares, prime, i, secret,
                      basisAtZero(shares, prime, i, 1, 1, 1)[1],
                      modInverse(basisAtZero(shares, prime, i, 1, 1, 1)[2], prime))

lagrangeWith(shares, prime, i, secret, numerator, invDenominator) ==
    IF ~invDenominator.ok THEN invDenominator
    ELSE lagrangeFrom(shares, prime, i + 1,
                      addTermFlat(secret, shares[i].y, numerator,
                                  invDenominator.val, prime))

lagrangeInterpolate(shares, prime) == lagrangeFrom(shares, prime, 1, 0)

\* lines 243-252
prependAll(first, combs) == [c \in 1..Len(combs) |-> <<first>> \o combs[c]]

RECURSIVE getCombinationsFlat(_, _)
getCombinationsFlat(array, size) ==
    IF size = 0 THEN << <<>> >>
    ELSE IF Len(array) = 0 THEN <<>>
    ELSE prependAll(Head(array), getCombinationsFlat(Tail(array), size - 1))
         \o getCombinationsFlat(Tail(array), size)

\* the inner `for j` loop (291-298): no reduction modulo prime
RECURSIVE termAtFlat(_, _, _, _, _, _), termTimesFlat(_, _, _, _, _, _, _)
termAtFlat(shares, prime, atX, i, j, term) ==
    IF j > Len(shares) THEN Return(term)
    ELSE IF i = j THEN termAtFlat(shares, prime, atX, i, j + 1, term)
    ELSE termTimesFlat(shares, prime, atX, i, j, term,
                       modInverse(shares[i].x - shares[j].x, prime))

termTimesFlat(shares, prime, atX, i, j, term, inv) ==
    IF ~inv.ok THEN inv
    ELSE termAtFlat(shares, prime, atX, i, j + 1,
                    term * (atX - shares[j].x) * inv.val)

\* the value returned at line 302
foldResultFlat(r, prime) == JSRem(JSRem(r, prime) + prime, prime)

\* the outer `for i` loop (286-300) from index i on, then the return
RECURSIVE evaluateFromFlat(_, _, _, _, _), evaluateAddFlat(_, _, _, _, _, _)
evaluateFromFlat(shares, prime, atX, i, r) ==
    IF i > Len(shares) THEN Return(foldResultFlat(r, prime))
    ELSE evaluateAddFlat(shares, prime, atX, i, r,
                         termAtFlat(shares, prime, atX, i, 1, shares[i].y))

evaluateAddFlat(shares, prime, atX, i, r, t) ==
    IF ~t.ok THEN t
    ELSE evaluateFromFlat(shares, prime, atX, i + 1, r + t.val)

evaluatePolynomialFlat(shares, prime, atX) == evaluateFromFlat(shares, prime, atX, 1, 0)

-----------------------------------------------------------------------------
(* The helpers called on their own: arguments in `call`, outcome in `ret` *)

Idle ==
    /\ allShares = <<>>
    /\ k = 0
    /\ uniqueShares = <<>>
    /\ combinations = <<>>
    /\ idx = 0
    /\ tried = <<>>
    /\ result = NoResult
    /\ UploadIdle

IdleUnchanged ==
    UNCHANGED <<allShares, k, uniqueShares, combinations, idx, tried, result, call, upload>>

(* modInverse *)

InitInverse ==
    /\ pc = "start"
    /\ call \in [a : (-MaxA)..MaxA, m : 2..MaxM]
    /\ ret = NoValue
    /\ Idle

CallModInverse ==
    /\ pc = "start"
    /\ ret' = modInverse(call.a, call.m)
    /\ pc' = "done"
    /\ IdleUnchanged

NextInverse == CallModInverse

SpecInverse == InitInverse /\ [][NextInverse]_vars

(* getCombinations, both variants *)

Elems == {"a", "b"}

InitCombinations ==
    /\ pc = "start"
    /\ call \in [variant : {"keyed", "flat"},
                 array : SeqsUpTo(Elems, MaxArr),
                 size : 0..MaxSize]
    /\ ret = NoValue
    /\ Idle

CallGetCombinations ==
    /\ pc = "start"
    /\ call.variant = "keyed"
    /\ ret' = Return(getCombinations(call.array, call.size))
    /\ pc' = "done"
    /\ IdleUnchanged

CallGetCombinationsFlat ==
    /\ pc = "start"
    /\ call.variant = "flat"
    /\ ret' = Return(getCombinationsFlat(call.array, call.size))
    /\ pc' = "done"
    /\ IdleUnchanged

NextCombinations == CallGetCombinations \/ CallGetCombinationsFlat

SpecCombinations == InitCombinations /\ [][NextCombinations]_vars

(* the interpolators, both variants *)

Primes == {2, 3, 5}
XCoords == (-1)..MaxC
YCoords == (-MaxC)..(MaxC + 1)
AtXs == {-1, 0, MaxC + 1}
Points == [x : XCoords, y : YCoords]

InitInterpolate ==
    /\ pc = "start"
    /\ call \in [fn : {"reconstructSecret", "lagrangeInterpolate",
                       "evaluatePolynomial", "evaluatePolynomialFlat"},
                 points : SeqsUpTo(Points, MaxPts),
                 prime : Primes,
                 x : AtXs]
    /\ call.fn \in {"reconstructSecret", "lagrangeInterpolate"} => call.x = 0
    /\ ret = NoValue
    /\ Idle

CallReconstructSecret ==
    /\ pc = "start"
    /\ call.fn = "reconstructSecret"
    /\ ret' = reconstructSecret(call.points, call.prime)
    /\ pc' = "done"
    /\ IdleUnchanged

CallLagrangeInterpolate ==
    /\ pc = "start"
    /\ call.fn = "lagrangeInterpolate"
    /\ ret' = lagrangeInterpolate(call.points, call.prime)
    /\ pc' = "done"
    /\ IdleUnchanged

CallEvaluatePolynomial ==
    /\ pc = "start"
    /\ call.fn = "evaluatePolynomial"
    /\ ret' = evaluatePolynomial(call.x, call.points, call.prime)
    /\ pc' = "done"
    /\ IdleUnchanged

CallEvaluatePolynomialFlat ==
    /\ pc = "start"
    /\ call.fn = "evaluatePolynomialFlat"
    /\ ret' = evaluatePolynomialFlat(call.points, call.prime, call.x)
    /\ pc' = "done"
    /\ IdleUnchanged

NextInterpolate ==
    \/ CallReconstructSecret
    \/ CallLagrangeInterpolate
    \/ CallEvaluatePolynomial
    \/ CallEvaluatePolynomialFlat

SpecInterpolate == InitInterpolate /\ [][NextInterpolate]_vars

-----------------------------------------------------------------------------
(* Reference mathematics over Z_p, used to state the claims *)

Divides(d, n) == n % d = 0

GCD(a, b) == CHOOSE d \in 1..(Abs(a) + Abs(b)) :
                 /\ Divides(d, Abs(a)) /\ Divides(d, Abs(b))
                 /\ \A e \in 1..(Abs(a) + Abs(b)) :
                        Divides(e, Abs(a)) /\ Divides(e, Abs(b)) => e <= d

FieldInverse(a, p) == CHOOSE b \in 0..(p - 1) : (a * b) % p = 1

\* the Lagrange basis polynomial of point i, evaluated at x, in [0, p)
RECURSIVE RefBasis(_, _, _, _, _)
RefBasis(pts, p, x, i, j) ==
    IF j > Len(pts) THEN 1
    ELSE IF j = i THEN RefBasis(pts, p, x, i, j + 1)
    ELSE ((x - pts[j].x) * FieldInverse(pts[i].x - pts[j].x, p)
          * RefBasis(pts, p, x, i, j + 1)) % p

\* the polynomial of degree < Len(pts) through pts, evaluated at x, in [0, p)
RECURSIVE RefEvalFrom(_, _, _, _)
RefEvalFrom(pts, p, x, i) ==
    IF i > Len(pts) THEN 0
    ELSE (pts[i].y * RefBasis(pts, p, x, i, 1) + RefEvalFrom(pts, p, x, i + 1)) % p

RefEval(pts, p, x) == RefEvalFrom(pts, p, x, 1)

RECURSIVE SetToSeq(_)
SetToSeq(S) == IF S = {} THEN <<>>
               ELSE <<CHOOSE s \in S : TRUE>> \o SetToSeq(S \ {CHOOSE s \in S : TRUE})

XsOf(list) == {list[i].x : i \in 1..Len(list)}

NoDupX(list) == \A i, j \in 1..Len(list) : list[i].x = list[j].x => i = j

DistinctResidues(S, p) == \A a, b \in S : a.x % p = b.x % p => a = b

Min(a, b) == IF a <= b THEN a ELSE b

Residues(S, p) == {s.x % p : s \in S}

\* up to kk points of S with pairwise distinct x modulo p: they fix the only
\* polynomial of degree <= kk-1 that can pass through all of S
BaseOf(S, kk, p) ==
    SetToSeq(CHOOSE B \in SUBSET S :
                 /\ DistinctResidues(B, p)
                 /\ Cardinality(B) = Min(kk, Cardinality(Residues(S, p))))

\* s lies on the polynomial through the base
OnCurve(base, s, p) == RefEval(base, p, s.x) = s.y % p

\* the members of S all lie on one polynomial of degree <= kk-1 over Z_p
OnOnePoly(S, kk, p) == \A s \in S : OnCurve(BaseOf(S, kk, p), s, p)

\* f(0) for that polynomial
SecretOf(S, kk, p) == RefEval(BaseOf(S, kk, p), p, 0)

Reorder(list, f) == [i \in 1..Len(list) |-> list[f[i]]]

-----------------------------------------------------------------------------
(* Claims *)

Done == pc = "done"

InputSet == Range(allShares)

\* every coordinate of the input is a field element already (x non-zero)
InField == \A s \in InputSet : s.x \in 1..(Prime - 1) /\ s.y \in 0..(Prime - 1)

\* C1 (as claimed): Corruption tolerance. For a de-duplicated input of field
\* elements made of a set Good of n >= k shares on one polynomial f of degree <= k-1 and at most
\* n-k further shares off f, the call returns secret = f(0) and invalidShares
\* equal to exactly the corrupted shares.
C1_CorruptionTolerance ==
    (Done /\ NoDupX(allShares) /\ InField) =>
        \A Good \in SUBSET InputSet :
            ( /\ Cardinality(Good) >= k
              /\ Cardinality(InputSet \ Good) <= Cardinality(Good) - k
              /\ OnOnePoly(Good, k, Prime)
              /\ \A b \in InputSet \ Good : ~OnCurve(BaseOf(Good, k, Prime), b, Prime) )
            => /\ IsSuccess(result)
               /\ result.secret = SecretOf(Good, k, Prime)
               /\ Range(result.invalidShares) = InputSet \ Good

\* C2 (as claimed): Round-trip with exactly k shares. Exactly k shares with
\* pairwise distinct, non-zero x in the field are reconstructed: the call returns
\* a success whose secret is f(0) and whose invalidShares is empty.
C2_RoundTripExactlyK ==
    ( /\ Done
      /\ Len(allShares) = k
      /\ NoDupX(allShares)
      /\ InField )
    => /\ IsSuccess(result)
       /\ result.secret = RefEval(allShares, Prime, 0)
       /\ result.invalidShares = <<>>

\* C3 (as claimed): Non-reconstructibility. With more than k de-duplicated
\* shares of which no k+1 lie on one polynomial of degree <= k-1, the call
\* returns the "could not find a consistent set" error and no secret.
C3_NonReconstructible ==
    ( /\ Done
      /\ NoDupX(allShares)
      /\ InField
      /\ Len(allShares) > k
      /\ \A T \in SUBSET InputSet :
             Cardinality(T) = k + 1 => ~OnOnePoly(T, k, Prime) )
    => result = NoConsistentSet

\* C4: Insufficiency. When fewer than k input shares have pairwise distinct
\* x, the call returns a "not enough shares" error without enumerating or
\* trying any candidate and without returning a secret.
C4_Insufficiency ==
    (Done /\ Cardinality(XsOf(allShares)) < k) =>
        /\ result \in {NotEnoughShares, NotEnoughUnique}
        /\ combinations = <<>>
        /\ tried = <<>>

\* C4 witness: enough shares are supplied but a repeated x leaves fewer than
\* k distinct ones, and the call has returned
C4_Witness ==
    /\ Done
    /\ Len(allShares) >= k
    /\ Cardinality(XsOf(allShares)) < k
    /\ result = NotEnoughUnique

\* C5: Partition of the result. On every successful return validShares and
\* invalidShares have no x in common, together they are exactly the
\* de-duplicated share set, and validShares holds the whole accepted candidate.
C5_Partition ==
    (Done /\ IsSuccess(result)) =>
        /\ XsOf(result.validShares) \cap XsOf(result.invalidShares) = {}
        /\ Range(result.validShares) \cup Range(result.invalidShares)
               = Range(uniqueShares)
        /\ Len(result.validShares) + Len(result.invalidShares) = Len(uniqueShares)
        /\ Range(combinations[idx]) \subseteq Range(result.validShares)

\* C5 witness: a success with a share outside the candidate classified valid
\* and another one classified invalid
C5_Witness ==
    /\ Done
    /\ IsSuccess(result)
    /\ Len(result.validShares) > k
    /\ result.invalidShares # <<>>

\* C6 (as claimed): modInverse(a, m) returns the unique b in [0, m) with
\* a*b = 1 (mod m) when gcd(a, m) = 1, and throws exactly when gcd(a, m) # 1.
C6_ModInverseContract ==
    Done =>
        IF GCD(call.a, call.m) = 1
        THEN /\ ret.ok
             /\ ret.val \in 0..(call.m - 1)
             /\ (call.a * ret.val) % call.m = 1
        ELSE ~ret.ok

\* the strictly increasing position lists of length size over 1..n
IncreasingPositions(n, size) ==
    {f \in [1..size -> 1..n] : \A i, j \in 1..size : i < j => f[i] < f[j]}

Pick(array, f) == [i \in 1..Len(f) |-> array[f[i]]]

\* C7: getCombinations (both variants) returns every size-element subset of
\* the input positions exactly once, each in input order: as many subsets as
\* there are increasing position lists, and every value is returned as often
\* as there are position lists selecting it.
C7_Combinations ==
    Done =>
        LET subsets == ret.val
            positions == IncreasingPositions(Len(call.array), call.size)
        IN /\ Len(subsets) = Cardinality(positions)
           /\ \A f \in positions :
                  Cardinality({i \in 1..Len(subsets) : subsets[i] = Pick(call.array, f)})
                    = Cardinality({g \in positions :
                                      Pick(call.array, g) = Pick(call.array, f)})

\* C7 witness: several subsets returned from an array with a repeated element
C7_Witness ==
    /\ Done
    /\ call.size = 2
    /\ Len(call.array) = 3
    /\ call.array[1] = call.array[3]
    /\ Len(ret.val) = 3

\* the outcome of a call as far as C8 compares it
Outcome(r) == IF IsSuccess(r) THEN <<"secret", r.secret>> ELSE <<"error", 0>>

\* C8: Order independence. For de-duplicated shares that all lie on one
\* polynomial of degree <= k-1, every ordering of the input gives the same
\* outcome: an error for every ordering, or the same secret for every ordering.
C8_OrderIndependence ==
    ( /\ Done
      /\ NoDupX(allShares)
      /\ OnOnePoly(InputSet, k, Prime) )
    => \A f \in Permutations(1..Len(allShares)) :
           Outcome(findValidSharesAndReconstruct(Reorder(allShares, f), k))
             = Outcome(result)

\* C8 witness: more than k consistent shares, reconstructed after the first
\* candidate in this order threw
C8_Witness ==
    /\ Done
    /\ NoDupX(allShares)
    /\ Len(allShares) > k
    /\ OnOnePoly(InputSet, k, Prime)
    /\ IsSuccess(result)
    /\ Len(tried) > 1

\* the candidates of the loop that do not throw and pass line 168
Passing == {j \in 1..Len(combinations) :
               tryCombo(combinations[j], uniqueShares, k, Prime).ok}

FirstPassing == CHOOSE j \in Passing : \A i \in Passing : j <= i

\* C9: Per-candidate error containment. An error thrown while one candidate
\* is processed never reaches the caller: the candidate is rejected and the
\* next one is tried, so the call returns the classification of the first
\* passing candidate if there is one and the single "could not find" error
\* otherwise; the result is a full classification or a single error value.
C9_ErrorContainment ==
    (Done /\ Len(uniqueShares) >= k) =>
        /\ IF Passing = {}
           THEN /\ result = NoConsistentSet
                /\ Len(tried) = Len(combinations)
           ELSE /\ result = tryCombo(combinations[FirstPassing],
                                     uniqueShares, k, Prime).val
                /\ Len(tried) = FirstPassing
        /\ \/ DOMAIN result = {"secret", "validShares", "invalidShares"}
           \/ DOMAIN result = {"error"}

\* C9 witness: a candidate threw and a later candidate was returned
C9_Witness ==
    /\ Done
    /\ IsSuccess(result)
    /\ Len(tried) > 1
    /\ tried[1] \in {"NoInverse", "DivisionByZero"}

\* C10: Every value returned by reconstructSecret, lagrangeInterpolate and
\* both evaluatePolynomial variants lies in [0, p).
C10_ResultInField ==
    (Done /\ ret.ok) => ret.val \in 0..(call.prime - 1)

\* C10 witness: a value returned for points with a negative y, a y not
\* reduced modulo p and a negative x difference
C10_Witness ==
    /\ Done
    /\ ret.ok
    /\ Len(call.points) >= 2
    /\ \E i \in 1..Len(call.points) : call.points[i].y < 0
    /\ \E i \in 1..Len(call.points) : call.points[i].y >= call.prime
    /\ call.points[1].x - call.points[2].x < -1

\* the candidate whose classification was returned
Accepted == combinations[idx]

\* C11 (as claimed): Agreement is tested modulo p. For every accepted
\* candidate C and every de-duplicated share s outside C, s is in validShares
\* exactly when the polynomial through C evaluated at s.x is congruent to s.y
\* modulo p, also when s.y is not reduced into [0, p).
C11_AgreementModuloP ==
    (Done /\ IsSuccess(result)) =>
        \A i \in 1..Len(uniqueShares) :
            ~hasX(Accepted, uniqueShares[i].x) =>
                ( hasX(result.validShares, uniqueShares[i].x)
                  <=> RefEval(Accepted, Prime, uniqueShares[i].x)
                        = uniqueShares[i].y % Prime )

-----------------------------------------------------------------------------
(* The same call on inputs with a threshold above MaxK: MaxK + 2 shares with *)
(* pairwise distinct x and k = MaxK + 1, so that a candidate can interpolate *)
(* at 0 and still throw when evaluated at the x of a share outside it        *)

\* the shares lie on the constant polynomial 1, but for a corrupted y at x = 1
DeepShares == [x : 1..(MaxK + 3), y : {1}] \cup {[x |-> 1, y |-> 0]}

InitDeep ==
    /\ pc = "start"
    /\ allShares \in {s \in [1..(MaxK + 2) -> DeepShares] : NoDupX(s)}
    /\ k = MaxK + 1
    /\ uniqueShares = <<>>
    /\ combinations = <<>>
    /\ idx = 0
    /\ tried = <<>>
    /\ result = NoResult
    /\ call = <<>>
    /\ ret = NoValue
    /\ UploadIdle

SpecDeep == InitDeep /\ [][Next]_vars

\* candidate j interpolates at 0 but evaluatePolynomial throws at the x of
\* the i-th de-duplicated share, which is outside the candidate
EvaluationThrows(j, i) ==
    /\ reconstructSecret(combinations[j], Prime).ok
    /\ ~hasX(combinations[j], uniqueShares[i].x)
    /\ ~evaluatePolynomial(uniqueShares[i].x, combinations[j], Prime).ok

CongruentAbscissas ==
    \E i, j \in 1..Len(call.points) :
        /\ i # j
        /\ (call.points[i].x - call.points[j].x) % call.prime = 0

\* C13: Both interpolation operations fail on abscissas that coincide modulo
\* p. reconstructSecret and evaluatePolynomial (and their flat-array
\* counterparts) throw an Error and return no value whenever two of the
\* supplied points have x-coordinates congruent modulo p, also when the two
\* x are distinct integers.
C13_CongruentAbscissasFail ==
    (Done /\ CongruentAbscissas) =>
        /\ ~ret.ok
        /\ ret.msg \in {"DivisionByZero", "NoInverse"}

\* C13 witness: evaluatePolynomial has thrown on two points whose x are
\* distinct integers congruent modulo p
C13_Witness ==
    /\ Done
    /\ call.fn = "evaluatePolynomial"
    /\ Len(call.points) = 2
    /\ call.points[1].x # call.points[2].x
    /\ CongruentAbscissas
    /\ ~ret.ok

\* the positions of the first and of the last input share with abscissa x
FirstAt(x) == CHOOSE i \in 1..Len(allShares) :
                  /\ allShares[i].x = x
                  /\ \A j \in 1..(i - 1) : allShares[j].x # x

LastAt(x) == CHOOSE i \in 1..Len(allShares) :
                 /\ allShares[i].x = x
                 /\ \A j \in (i + 1)..Len(allShares) : allShares[j].x # x

\* line 146 has been executed
Deduplicated == pc # "start" /\ Len(allShares) >= k

\* the positions of uniqueShares that hold abscissa x
UniqueAt(x) == {i \in 1..Len(uniqueShares) : uniqueShares[i].x = x}

\* C14 (as claimed): De-duplication tie-break. When several input shares have
\* the same x, the de-duplicated list holds exactly one share with that x and
\* it is the first occurrence in input order (first-occurrence-wins).
C14_FirstOccurrenceWins ==
    Deduplicated =>
        \A x \in XsOf(allShares) :
            /\ Cardinality(UniqueAt(x)) = 1
            /\ \A i \in UniqueAt(x) : uniqueShares[i] = allShares[FirstAt(x)]

\* C14 (amended): De-duplication tie-break. When several input shares have
\* the same x, the de-duplicated list holds exactly one share with that x; it
\* carries the y of the last occurrence in input order (last-value-wins) and
\* stands at the rank of the first occurrence of that x.
C14_LastValueWins ==
    Deduplicated =>
        /\ XsOf(uniqueShares) = XsOf(allShares)
        /\ \A x \in XsOf(allShares) :
              /\ Cardinality(UniqueAt(x)) = 1
              /\ \A i \in UniqueAt(x) : uniqueShares[i] = allShares[LastAt(x)]
        /\ \A i, j \in 1..Len(uniqueShares) :
              i < j => FirstAt(uniqueShares[i].x) < FirstAt(uniqueShares[j].x)

\* C14 witness: the input was de-duplicated and held two shares with the
\* same x and different y, with a share of another x between them
C14_Witness ==
    /\ Deduplicated
    /\ Len(allShares) = 3
    /\ allShares[1].x = allShares[3].x
    /\ allShares[1].y # allShares[3].y
    /\ allShares[2].x # allShares[1].x

-----------------------------------------------------------------------------
(* Flat-array variant: findValidSharesAndReconstruct, shamir.ts 235-280 *)

\* data.prime and data.shares of the flat-array input
FlatPrimes == {5, 7}
FlatShares == [x : {1, 2, 3}, y : {0, 1}]

\* lines 265-267
pushIfEqualFlat(consistentShares, share, reconstructedY) ==
    IF share.y = reconstructedY THEN Append(consistentShares, share)
    ELSE consistentShares

\* the `for (const share of shares)` loop, lines 261-268: evaluatePolynomial
\* is given the consistentShares grown so far
RECURSIVE collectFlat(_, _, _), collectWithFlat(_, _, _, _)
collectFlat(shares, prime, consistentShares) ==
    IF shares = <<>> THEN Return(consistentShares)
    ELSE IF hasX(consistentShares, Head(shares).x)
    THEN collectFlat(Tail(shares), prime, consistentShares)
    ELSE collectWithFlat(shares, prime, consistentShares,
                         evaluatePolynomialFlat(consistentShares, prime, Head(shares).x))

collectWithFlat(shares, prime, consistentShares, reconstructedY) ==
    IF ~reconstructedY.ok THEN reconstructedY
    ELSE collectFlat(Tail(shares), prime,
                     pushIfEqualFlat(consistentShares, Head(shares), reconstructedY.val))

\* lines 270-273, once the loop over shares has ended or thrown
acceptOrNotFlat(potentialSecret, consistent, shares, kk) ==
    IF ~consistent.ok THEN consistent
    ELSE IF accepts(consistent.val, kk)
    THEN Return([secret |-> potentialSecret,
                 invalidShares |-> filterNotIn(shares, consistent.val)])
    ELSE Throw("NotAccepted")

\* lines 259-273, once lagrangeInterpolate has returned or thrown
crossCheckFlat(potentialSecret, combination, shares, kk, prime) ==
    IF ~potentialSecret.ok THEN potentialSecret
    ELSE acceptOrNotFlat(potentialSecret.val, collectFlat(shares, prime, combination),
                         shares, kk)

\* the body of the try block for one combination, lines 258-273
tryComboFlat(combination, shares, kk, prime) ==
    crossCheckFlat(lagrangeInterpolate(combination, prime), combination, shares, kk, prime)

NotEnoughSharesFlat == [error |-> "Not enough shares to reconstruct"]
NoConsistentSetFlat ==
    [error |-> "Could not find a consistent set of k shares to reconstruct the secret"]

InitFlat ==
    /\ pc = "startFlat"
    /\ allShares \in SeqsUpTo(FlatShares, MaxShares)
    /\ k \in 0..MaxK
    /\ call \in [prime : FlatPrimes]
    /\ uniqueShares = <<>>
    /\ combinations = <<>>
    /\ idx = 0
    /\ tried = <<>>
    /\ result = NoResult
    /\ ret = NoValue
    /\ UploadIdle

\* lines 239-254: the count check and the enumeration
StartFlat ==
    /\ pc = "startFlat"
    /\ IF Len(allShares) < k
       THEN /\ result' = NotEnoughSharesFlat
            /\ pc' = "doneFlat"
            /\ UNCHANGED <<combinations, idx>>
       ELSE /\ combinations' = getCombinationsFlat(allShares, k)
            /\ idx' = 1
            /\ pc' = "loopFlat"
            /\ UNCHANGED result
    /\ UNCHANGED <<allShares, k, uniqueShares, tried, call, ret, upload>>

\* lines 257-272: the combination passes and its result is returned
AcceptCandidateFlat ==
    /\ pc = "loopFlat"
    /\ idx <= Len(combinations)
    /\ \E r \in {tryComboFlat(combinations[idx], allShares, k, call.prime)} :
          /\ r.ok
          /\ result' = r.val
          /\ tried' = Append(tried, r.msg)
    /\ pc' = "doneFlat"
    /\ UNCHANGED <<allShares, k, uniqueShares, combinations, idx, call, ret, upload>>

\* lines 274-276: the combination threw (or failed line 270); `continue`
RejectCandidateFlat ==
    /\ pc = "loopFlat"
    /\ idx <= Len(combinations)
    /\ \E r \in {tryComboFlat(combinations[idx], allShares, k, call.prime)} :
          /\ ~r.ok
          /\ tried' = Append(tried, r.msg)
    /\ idx' = idx + 1
    /\ UNCHANGED <<pc, result, allShares, k, uniqueShares, combinations, call, ret, upload>>

\* line 279: every combination was rejected
ExhaustedFlat ==
    /\ pc = "loopFlat"
    /\ idx > Len(combinations)
    /\ result' = NoConsistentSetFlat
    /\ pc' = "doneFlat"
    /\ UNCHANGED <<allShares, k, uniqueShares, combinations, idx, tried, call, ret, upload>>

NextFlat == StartFlat \/ AcceptCandidateFlat \/ RejectCandidateFlat \/ ExhaustedFlat

(* both variants of the call *)

InitVariants == Init \/ InitFlat

NextVariants == Next \/ NextFlat

SpecVariants == InitVariants /\ [][NextVariants]_vars

-----------------------------------------------------------------------------
(* Claims on the acceptance test and on the second interpolation pass *)

InFlat == pc \in {"startFlat", "loopFlat", "doneFlat"}

Finished == pc \in {"done", "doneFlat"}

\* consistentShares as it stands when the acceptance test is reached for
\* candidate j (lines 156-166, 258-268), or the Error thrown before the test
ConsistentKeyed(j, secretCandidate) ==
    IF ~secretCandidate.ok THEN secretCandidate
    ELSE collectConsistent(filterNotIn(uniqueShares, combinations[j]),
                           combinations[j], Prime, combinations[j])

ConsistentFlat(j, potentialSecret) ==
    IF ~potentialSecret.ok THEN potentialSecret
    ELSE collectFlat(allShares, call.prime, combinations[j])

ConsistentOf(j) ==
    IF InFlat
    THEN ConsistentFlat(j, lagrangeInterpolate(combinations[j], call.prime))
    ELSE ConsistentKeyed(j, reconstructSecret(combinations[j], Prime))

\* the candidates whose interpolation and evaluations throw nothing
NoError == {j \in 1..Len(combinations) : ConsistentOf(j).ok}

FirstNoError == CHOOSE j \in NoError : \A i \in NoError : j <= i

FinalPassInput(j) == SubSeq(ConsistentOf(j).val, 1, k)

\* C16: The second interpolation pass is redundant. For every candidate that
\* reaches it, the first k members of consistentShares are the candidate
\* itself in the same order, so the pass throws nothing and the returned
\* finalSecret equals the secretCandidate computed from the candidate.
C16_SecondPassRedundant ==
    /\ \A j \in 1..Len(tried) :
          ConsistentOf(j).ok =>
              /\ FinalPassInput(j) = combinations[j]
              /\ reconstructSecret(FinalPassInput(j), Prime).ok
              /\ tried[j] = "none"
    /\ (Done /\ IsSuccess(result)) =>
          /\ SubSeq(result.validShares, 1, k) = Accepted
          /\ result.secret = reconstructSecret(Accepted, Prime).val

\* C16 witness: a classification was returned whose consistentShares is
\* longer than the candidate, for a threshold above 1
C16_Witness ==
    /\ Done
    /\ IsSuccess(result)
    /\ k > 1
    /\ Len(result.validShares) > k

-----------------------------------------------------------------------------
(* The upload component: shamir-reconstructor.tsx 17-71.  An event handler   *)
(* runs to its end or to its `await` in one step; the rest of                *)
(* handleReconstruct runs when the read of the file completes.               *)

\* the parsed content of a file: not JSON at all, or the shares and k it holds
UploadData ==
    { [json |-> FALSE, k |-> 0, shares |-> <<>>],
      [json |-> TRUE, k |-> 1, shares |-> <<[x |-> 1, y |-> 1]>>],
      [json |-> TRUE, k |-> 1, shares |-> <<[x |-> 1, y |-> 1], [x |-> 2, y |-> 0]>>],
      [json |-> TRUE, k |-> 2, shares |-> <<[x |-> 1, y |-> 1]>>] }

\* the File objects the user can pick
UploadFiles == [name : {"a", "b"},
                type : {"application/json", "text/plain"},
                data : UploadData]

\* lines 55-57: an error value returned by the engine is thrown
thrownIfError(reconstructionResult) ==
    IF IsError(reconstructionResult) THEN Throw(reconstructionResult.error)
    ELSE Return(reconstructionResult)

\* lines 50-57 on the content of the file: JSON.parse throws or the engine is called
reconstruction(f) ==
    IF ~f.data.json THEN Throw("SyntaxError")
    ELSE thrownIfError(findValidSharesAndReconstruct(f.data.shares, f.data.k))

\* the state of the code outside the component
lib == <<pc, allShares, k, uniqueShares, combinations, idx, tried, result, call, ret>>

InitUpload ==
    /\ pc = "ui"
    /\ call = <<>>
    /\ ret = NoValue
    /\ Idle

\* lines 24-36: the change event of the file input; it can come at any time,
\* the upload button is never disabled (line 108)
HandleFileChange ==
    /\ pc = "ui"
    /\ \E selectedFile \in UploadFiles \cup {Null} :
          IF selectedFile = Null THEN UNCHANGED <<component, resultOf>>
          ELSE IF selectedFile.type = "application/json"
          THEN /\ component' = [component EXCEPT !.file = selectedFile,
                                                 !.error = Null,
                                                 !.result = Null]
               /\ resultOf' = Null
          ELSE /\ component' = [component EXCEPT
                                   !.error = [message |-> "Invalid file type"],
                                   !.file = Null]
               /\ UNCHANGED resultOf
    /\ UNCHANGED <<reading, lib>>

\* lines 38-49: a click on Reconstruct, up to the await; the button is
\* disabled when there is no file or while isLoading is set (line 113)
HandleReconstruct ==
    /\ pc = "ui"
    /\ component.file # Null
    /\ ~component.isLoading
    /\ component' = [component EXCEPT !.isLoading = TRUE,
                                      !.error = Null,
                                      !.result = Null]
    /\ reading' = reading \cup {component.file}
    /\ resultOf' = Null
    /\ UNCHANGED lib

\* lines 50-70: file.text() resolves and the rest of handleReconstruct runs
\* on the file it was called with
ReadResolves ==
    /\ pc = "ui"
    /\ \E f \in reading : \E r \in {reconstruction(f)} :
          /\ reading' = reading \ {f}
          /\ IF r.ok
             THEN /\ component' = [component EXCEPT !.result = r.val,
                                                    !.isLoading = FALSE]
                  /\ resultOf' = f
             ELSE /\ component' = [component EXCEPT !.error = [message |-> r.msg],
                                                    !.isLoading = FALSE]
                  /\ UNCHANGED resultOf
    /\ UNCHANGED lib

\* lines 49, 66-70: file.text() rejects
ReadRejects ==
    /\ pc = "ui"
    /\ \E f \in reading :
          /\ reading' = reading \ {f}
          /\ component' = [component EXCEPT !.error = [message |-> "NotReadable"],
                                            !.isLoading = FALSE]
    /\ UNCHANGED <<resultOf, lib>>

NextUpload == HandleFileChange \/ HandleReconstruct \/ ReadResolves \/ ReadRejects

SpecUpload == InitUpload /\ [][NextUpload]_vars

\* C17 (as claimed): Upload component. After any interleaving of file
\* selections (valid JSON or wrong type), Reconstruct clicks and completions
\* of the asynchronous file read, the component never shows an error and a
\* reconstruction result at the same time, and a shown result belongs to the
\* currently selected file.
C17_ErrorOrCurrentResult ==
    /\ ~(component.error # Null /\ component.result # Null)
    /\ component.result # Null => resultOf = component.file

====
